---- MODULE Spec2Model ----
(***************************************************************************)
(* Model of "Simple Task Queue/Task Queue.py": class TaskQueue, a pool of  *)
(* daemon worker threads sharing one queue.Queue of (task, retries) work   *)
(* items, with bounded re-submission on failure, and the callers that      *)
(* submit, join the queue and shut the pool down.                          *)
(*                                                                         *)
(* Each worker thread is a small program counter machine:                  *)
(*   "check"   at the loop test  `while self.running`            (l.21)    *)
(*   "get"     blocked in        `task_queue.get(timeout=1)`     (l.23)    *)
(*   "exec"    inside            `task()`                        (l.25)    *)
(*   "finally" before            `task_queue.task_done()`        (l.30-31) *)
(*             after a normal return or a handled Exception                *)
(*   "unwind"  before the same task_done(), while an exception that        *)
(*             `except Exception` does not catch propagates                *)
(*   "exited"  the thread has terminated                                   *)
(* queue.Queue is the standard library's: put appends and increments       *)
(* unfinished_tasks, get pops the head or raises Empty, task_done          *)
(* decrements unfinished_tasks, join waits until it is zero; each holds    *)
(* the queue's mutex, so each is one atomic step.                          *)
(***************************************************************************)
EXTENDS Naturals, Integers, Sequences, FiniteSets, TLC

\* Bounds of the model: the number of submit() calls made by callers, and
\* the largest retry budget they pass.
MaxTasks == 2
MaxRetries == 2

\* The pool sizes given to TaskQueue(num_workers): one worker, and the two
\* workers of __main__.
PoolSizes == {1, 2}
AllWorkers == UNION {1..n : n \in PoolSizes}

\* A logical task is one submit() call; the calls are numbered in the order
\* their put() took effect.
TaskIds == 1..MaxTasks
\* Threads that call submit(): the main thread (which also joins) and another.
Callers == {"main", "aux"}
NoItem == [task |-> 0, retries |-> 0]
\* The retry budgets callers pass to submit(): none, or the largest.
RetryChoices == {0, MaxRetries}

VARIABLES
    workers,      \* self.workers: the worker threads started at construction
    task_queue,   \* self.task_queue: FIFO of (task, retries)
    unfinished,   \* self.task_queue.unfinished_tasks
    running,      \* self.running
    pc,           \* worker thread -> position in worker()
    item,         \* worker thread -> the (task, retries) it dequeued
    nsub,         \* number of submit() calls made by callers so far
    budget,       \* task -> retries given to its submit() call
    nfail,        \* task -> number of its attempts that raised Exception
    execs,        \* task -> number of times task() has been started
    status,       \* task -> "new" | "live" | "ok" | "dropped" | "aborted"
    late,         \* worker -> number of items it dequeued while running was False
    via,          \* worker -> what brought it to the loop test it is at or ended
                  \* at: "start" | "empty" (a timed-out get) | "done" (task_done);
                  \* "none" once it has passed the test
    jpc           \* main thread: "idle" | "waiting" (in join()) | "returned"

vars == <<workers, task_queue, unfinished, running, pc, item, nsub, budget,
          nfail, execs, status, late, via, jpc>>

queueVars == <<task_queue, unfinished>>
taskVars == <<nsub, budget, nfail, execs, status>>

----------------------------------------------------------------------------
\* queue.Queue primitives

\* A put at the head of the queue.
Put_Front(q, it) == <<it>> \o q

\* A put whose write of the tail slot is lost when the queue is not empty.
Put_Overwrite(q, it) == IF q = <<>> THEN <<it>> ELSE [q EXCEPT ![Len(q)] = it]

\* Queue.put: append at the tail.
Put(q, it) == Append(q, it)

\* A get that returns the head and leaves it in the queue.
Dequeue_Peek(q) == [item |-> Head(q), rest |-> q]

\* A get that takes the newest item (a LIFO queue).
Dequeue_Lifo(q) == [item |-> q[Len(q)], rest |-> SubSeq(q, 1, Len(q) - 1)]

\* Queue.get on a non-empty queue: the head is returned and removed.
Dequeue(q) == [item |-> Head(q), rest |-> Tail(q)]

\* A re-submission that forgets to decrement: submit(task, retries).
RetryItem_Same(it) == [task |-> it.task, retries |-> it.retries]

\* The work item re-submitted by the except handler: submit(task, retries - 1).
RetryItem(it) == [task |-> it.task, retries |-> it.retries - 1]

\* An off-by-one test: `if retries > 1`.
HasRetry_OffByOne(it) == it.retries > 1

\* The handler's test `if retries > 0`.
HasRetry(it) == it.retries > 0

----------------------------------------------------------------------------
\* TaskQueue.__init__: an empty queue, running = True, num_workers threads
\* started, each at its loop test.
Init ==
    /\ \E n \in PoolSizes : workers = 1..n
    /\ task_queue = <<>>
    /\ unfinished = 0
    /\ running = TRUE
    /\ pc = [w \in workers |-> "check"]
    /\ item = [w \in workers |-> NoItem]
    /\ nsub = 0
    /\ budget = [t \in TaskIds |-> 0]
    /\ nfail = [t \in TaskIds |-> 0]
    /\ execs = [t \in TaskIds |-> 0]
    /\ status = [t \in TaskIds |-> "new"]
    /\ late = [w \in workers |-> 0]
    /\ via = [w \in workers |-> "start"]
    /\ jpc = "idle"

\* A submit() that looks after the pool: it restarts every worker thread that
\* has ended.
SubmitCall_Respawn(r) ==
    /\ nsub < MaxTasks
    /\ nsub' = nsub + 1
    /\ task_queue' = Put(task_queue, [task |-> nsub + 1, retries |-> r])
    /\ unfinished' = unfinished + 1
    /\ budget' = [budget EXCEPT ![nsub + 1] = r]
    /\ status' = [status EXCEPT ![nsub + 1] = "live"]
    /\ pc' = [w \in workers |-> IF pc[w] = "exited" THEN "check" ELSE pc[w]]
    /\ UNCHANGED <<workers, running, item, nfail, execs, late, via>>

\* A submit() that refuses work once the pool is shutting down.
SubmitCall_WhileRunning(r) ==
    /\ running
    /\ nsub < MaxTasks
    /\ nsub' = nsub + 1
    /\ task_queue' = Put(task_queue, [task |-> nsub + 1, retries |-> r])
    /\ unfinished' = unfinished + 1
    /\ budget' = [budget EXCEPT ![nsub + 1] = r]
    /\ status' = [status EXCEPT ![nsub + 1] = "live"]
    /\ UNCHANGED <<workers, running, pc, item, nfail, execs, late, via>>

\* TaskQueue.submit(task, retries) called by thread c: one put of
\* (task, retries).
SubmitCall(r) ==
    /\ nsub < MaxTasks
    /\ nsub' = nsub + 1
    /\ task_queue' = Put(task_queue, [task |-> nsub + 1, retries |-> r])
    /\ unfinished' = unfinished + 1
    /\ budget' = [budget EXCEPT ![nsub + 1] = r]
    /\ status' = [status EXCEPT ![nsub + 1] = "live"]
    /\ UNCHANGED <<workers, running, pc, item, nfail, execs, late, via>>

Submit(c) ==
    /\ c = "main" => jpc = "idle"
    /\ \E r \in RetryChoices : SubmitCall(r)
    /\ UNCHANGED jpc

\* A loop that never tests the flag: `while True`.
Check_Always(w) ==
    /\ pc[w] = "check"
    /\ pc' = [pc EXCEPT ![w] = "get"]
    /\ via' = [via EXCEPT ![w] = "none"]
    /\ UNCHANGED <<workers, task_queue, unfinished, running, item, late>>
    /\ UNCHANGED taskVars /\ UNCHANGED jpc

\* worker(), line 21: the loop test.
Check(w) ==
    /\ pc[w] = "check"
    /\ pc' = [pc EXCEPT ![w] = IF running THEN "get" ELSE "exited"]
    /\ via' = [via EXCEPT ![w] = IF running THEN "none" ELSE @]
    /\ UNCHANGED <<workers, task_queue, unfinished, running, item, late>>
    /\ UNCHANGED taskVars /\ UNCHANGED jpc

\* worker(), line 23: get() returns the head item; line 25 calls task().
Get(w) ==
    /\ pc[w] = "get"
    /\ task_queue # <<>>
    /\ item' = [item EXCEPT ![w] = Dequeue(task_queue).item]
    /\ task_queue' = Dequeue(task_queue).rest
    /\ execs' = [execs EXCEPT ![Dequeue(task_queue).item.task] = @ + 1]
    /\ late' = [late EXCEPT ![w] = IF running THEN @ ELSE @ + 1]
    /\ pc' = [pc EXCEPT ![w] = "exec"]
    /\ UNCHANGED <<workers, unfinished, running, nsub, budget, nfail, status>>
    /\ UNCHANGED <<via, jpc>>

\* An Empty handler that retries the get() without going back to the loop
\* test.
Empty_Spin(w) ==
    /\ pc[w] = "get"
    /\ task_queue = <<>>
    /\ UNCHANGED vars

\* worker(), lines 23, 32-33: get() times out on an empty queue, Empty is
\* caught and the loop continues at its test.
Empty(w) ==
    /\ pc[w] = "get"
    /\ task_queue = <<>>
    /\ pc' = [pc EXCEPT ![w] = "check"]
    /\ via' = [via EXCEPT ![w] = "empty"]
    /\ UNCHANGED <<workers, task_queue, unfinished, running, item, late>>
    /\ UNCHANGED taskVars /\ UNCHANGED jpc

\* A worker that re-submits in the finally clause, so also after a success.
TaskSucceeds_Resubmit(w) ==
    /\ pc[w] = "exec"
    /\ status' = [status EXCEPT ![item[w].task] = "ok"]
    /\ IF HasRetry(item[w])
          THEN /\ task_queue' = Put(task_queue, RetryItem(item[w]))
               /\ unfinished' = unfinished + 1
          ELSE UNCHANGED queueVars
    /\ pc' = [pc EXCEPT ![w] = "finally"]
    /\ UNCHANGED <<workers, running, item, late, via>>
    /\ UNCHANGED <<nsub, budget, nfail, execs>> /\ UNCHANGED jpc

\* worker(), line 25: task() returns normally.  Whether an attempt returns
\* or raises is the task's business (sample_task draws it at random): the
\* three outcomes below are all possible on every attempt.
TaskSucceeds(w) ==
    /\ pc[w] = "exec"
    /\ status' = [status EXCEPT ![item[w].task] = "ok"]
    /\ pc' = [pc EXCEPT ![w] = "finally"]
    /\ UNCHANGED <<workers, task_queue, unfinished, running, item, late, via>>
    /\ UNCHANGED <<nsub, budget, nfail, execs>> /\ UNCHANGED jpc

\* A handler that leaves the re-submission for after task_done(): the failed
\* item is marked done while its retry is not in the queue yet.
TaskFails_Deferred(w) ==
    /\ pc[w] = "exec"
    /\ nfail' = [nfail EXCEPT ![item[w].task] = @ + 1]
    /\ IF HasRetry(item[w])
          THEN UNCHANGED status
          ELSE status' = [status EXCEPT ![item[w].task] = "dropped"]
    /\ pc' = [pc EXCEPT ![w] = "finally"]
    /\ UNCHANGED <<workers, task_queue, unfinished, running, item, late, via>>
    /\ UNCHANGED <<nsub, budget, execs>> /\ UNCHANGED jpc

\* A handler that never re-submits: the item is dropped on its first failure.
TaskFails_NoRetry(w) ==
    /\ pc[w] = "exec"
    /\ nfail' = [nfail EXCEPT ![item[w].task] = @ + 1]
    /\ status' = [status EXCEPT ![item[w].task] = "dropped"]
    /\ pc' = [pc EXCEPT ![w] = "finally"]
    /\ UNCHANGED <<workers, task_queue, unfinished, running, item, late, via>>
    /\ UNCHANGED <<nsub, budget, execs>> /\ UNCHANGED jpc

\* A handler that re-raises when no retry is left, which ends the thread.
TaskFails_Fatal(w) ==
    /\ pc[w] = "exec"
    /\ nfail' = [nfail EXCEPT ![item[w].task] = @ + 1]
    /\ IF HasRetry(item[w])
          THEN /\ task_queue' = Put(task_queue, RetryItem(item[w]))
               /\ unfinished' = unfinished + 1
               /\ UNCHANGED status
               /\ pc' = [pc EXCEPT ![w] = "finally"]
          ELSE /\ status' = [status EXCEPT ![item[w].task] = "dropped"]
               /\ UNCHANGED queueVars
               /\ pc' = [pc EXCEPT ![w] = "unwind"]
    /\ UNCHANGED <<workers, running, item, late, via>>
    /\ UNCHANGED <<nsub, budget, execs>> /\ UNCHANGED jpc

\* A handler that calls task_done() itself, before the finally clause does.
TaskFails_DoneTwice(w) ==
    /\ pc[w] = "exec"
    /\ nfail' = [nfail EXCEPT ![item[w].task] = @ + 1]
    /\ IF HasRetry(item[w])
          THEN /\ task_queue' = Put(task_queue, RetryItem(item[w]))
               /\ unfinished' = unfinished + 1 - 1
               /\ UNCHANGED status
          ELSE /\ status' = [status EXCEPT ![item[w].task] = "dropped"]
               /\ unfinished' = unfinished - 1
               /\ UNCHANGED task_queue
    /\ pc' = [pc EXCEPT ![w] = "finally"]
    /\ UNCHANGED <<workers, running, item, late, via>>
    /\ UNCHANGED <<nsub, budget, execs>> /\ UNCHANGED jpc

\* worker(), lines 25-29: task() raises Exception; the handler re-submits
\* (task, retries - 1) when retries > 0 and otherwise drops the item.
TaskFails(w) ==
    /\ pc[w] = "exec"
    /\ nfail' = [nfail EXCEPT ![item[w].task] = @ + 1]
    /\ IF HasRetry(item[w])
          THEN /\ task_queue' = Put(task_queue, RetryItem(item[w]))
               /\ unfinished' = unfinished + 1
               /\ UNCHANGED status
          ELSE /\ status' = [status EXCEPT ![item[w].task] = "dropped"]
               /\ UNCHANGED queueVars
    /\ pc' = [pc EXCEPT ![w] = "finally"]
    /\ UNCHANGED <<workers, running, item, late, via>>
    /\ UNCHANGED <<nsub, budget, execs>> /\ UNCHANGED jpc

\* worker(), lines 25-26: task() raises an exception that is not an
\* Exception (SystemExit, KeyboardInterrupt, ...): `except Exception` does
\* not catch it, nothing is re-submitted and it propagates through finally.
TaskAborts(w) ==
    /\ pc[w] = "exec"
    /\ status' = [status EXCEPT ![item[w].task] = "aborted"]
    /\ pc' = [pc EXCEPT ![w] = "unwind"]
    /\ UNCHANGED <<workers, task_queue, unfinished, running, item, late, via>>
    /\ UNCHANGED <<nsub, budget, nfail, execs>> /\ UNCHANGED jpc

\* A worker whose loop tests the flag only after a timed-out get(): after
\* task_done() it polls the queue again without looking at the flag.
TaskDone_Loop(w) ==
    /\ pc[w] \in {"finally", "unwind"}
    /\ unfinished' = unfinished - 1
    /\ item' = [item EXCEPT ![w] = NoItem]
    /\ pc' = [pc EXCEPT ![w] = IF pc[w] = "finally" THEN "get" ELSE "exited"]
    /\ via' = [via EXCEPT ![w] = "done"]
    /\ UNCHANGED <<workers, task_queue, running, late>>
    /\ UNCHANGED taskVars /\ UNCHANGED jpc

\* A worker whose task_done() is the last statement of the try block instead
\* of a finally clause: an exception that passes the handler skips it.
TaskDone_NotFinally(w) ==
    /\ pc[w] \in {"finally", "unwind"}
    /\ unfinished' = IF pc[w] = "finally" THEN unfinished - 1 ELSE unfinished
    /\ item' = [item EXCEPT ![w] = NoItem]
    /\ pc' = [pc EXCEPT ![w] = IF pc[w] = "finally" THEN "check" ELSE "exited"]
    /\ via' = [via EXCEPT ![w] = "done"]
    /\ UNCHANGED <<workers, task_queue, running, late>>
    /\ UNCHANGED taskVars /\ UNCHANGED jpc

\* A worker that tests the flag itself after task_done() and leaves at once:
\* `if not self.running: break`.
TaskDone_Break(w) ==
    /\ pc[w] \in {"finally", "unwind"}
    /\ unfinished' = unfinished - 1
    /\ item' = [item EXCEPT ![w] = NoItem]
    /\ pc' = [pc EXCEPT ![w] = IF pc[w] = "finally" /\ running THEN "check" ELSE "exited"]
    /\ via' = [via EXCEPT ![w] = "done"]
    /\ UNCHANGED <<workers, task_queue, running, late>>
    /\ UNCHANGED taskVars /\ UNCHANGED jpc

\* worker(), lines 30-31: finally, task_done().  After a normal return or a
\* handled Exception the loop continues at its test; an uncaught exception
\* leaves worker() (`except queue.Empty` does not catch it) and the thread
\* ends.
TaskDone(w) ==
    /\ pc[w] \in {"finally", "unwind"}
    /\ unfinished' = unfinished - 1
    /\ item' = [item EXCEPT ![w] = NoItem]
    /\ pc' = [pc EXCEPT ![w] = IF pc[w] = "finally" THEN "check" ELSE "exited"]
    /\ via' = [via EXCEPT ![w] = "done"]
    /\ UNCHANGED <<workers, task_queue, running, late>>
    /\ UNCHANGED taskVars /\ UNCHANGED jpc

\* A shutdown() that flips the flag, so that a second call restarts the pool.
Shutdown_Toggle ==
    /\ running' = ~running
    /\ UNCHANGED <<workers, task_queue, unfinished, pc, item, late, via>>
    /\ UNCHANGED taskVars /\ UNCHANGED jpc

\* TaskQueue.shutdown(): running = False; the joins on the workers have a
\* timeout and change nothing.
Shutdown ==
    /\ running' = FALSE
    /\ UNCHANGED <<workers, task_queue, unfinished, pc, item, late, via>>
    /\ UNCHANGED taskVars /\ UNCHANGED jpc

\* __main__, line 52: the main thread calls task_queue.join().
JoinCall ==
    /\ jpc = "idle"
    /\ jpc' = "waiting"
    /\ UNCHANGED <<workers, task_queue, unfinished, running, pc, item, late, via>>
    /\ UNCHANGED taskVars

\* A join that waits for the queue to be empty, not for unfinished_tasks.
JoinReturn_WhenEmpty ==
    /\ jpc = "waiting"
    /\ task_queue = <<>>
    /\ jpc' = "returned"
    /\ UNCHANGED <<workers, task_queue, unfinished, running, pc, item, late, via>>
    /\ UNCHANGED taskVars

\* Queue.join returns once unfinished_tasks is zero.
JoinReturn ==
    /\ jpc = "waiting"
    /\ unfinished = 0
    /\ jpc' = "returned"
    /\ UNCHANGED <<workers, task_queue, unfinished, running, pc, item, late, via>>
    /\ UNCHANGED taskVars

\* __main__, line 53: shutdown() after join() has returned.
ShutdownAfterJoin ==
    /\ jpc = "returned"
    /\ Shutdown

WorkerStep(w) ==
    \/ Check(w)
    \/ Get(w)
    \/ Empty(w)
    \/ TaskSucceeds(w)
    \/ TaskFails(w)
    \/ TaskAborts(w)
    \/ TaskDone(w)

\* Any caller may submit and shut down at any time.
Next ==
    \/ \E c \in Callers : Submit(c)
    \/ \E w \in workers : Check(w)
    \/ \E w \in workers : Get(w)
    \/ \E w \in workers : Empty(w)
    \/ \E w \in workers : TaskSucceeds(w)
    \/ \E w \in workers : TaskFails(w)
    \/ \E w \in workers : TaskAborts(w)
    \/ \E w \in workers : TaskDone(w)
    \/ Shutdown
    \/ JoinCall
    \/ JoinReturn

Spec == Init /\ [][Next]_vars

\* The pool without a joining thread: submissions, the workers and a
\* shutdown() at any time.
NextPool ==
    \/ Submit("aux")
    \/ \E w \in workers : Check(w)
    \/ \E w \in workers : Get(w)
    \/ \E w \in workers : Empty(w)
    \/ \E w \in workers : TaskSucceeds(w)
    \/ \E w \in workers : TaskFails(w)
    \/ \E w \in workers : TaskAborts(w)
    \/ \E w \in workers : TaskDone(w)
    \/ Shutdown

\* Every worker thread that can take a step eventually takes one.
FairPool ==
    /\ Init /\ [][NextPool]_vars
    /\ \A w \in AllWorkers : WF_vars(w \in workers /\ WorkerStep(w))

\* The program of __main__: the main thread submits, joins, then shuts down.
NextMain ==
    \/ Submit("main")
    \/ \E w \in workers : Check(w)
    \/ \E w \in workers : Get(w)
    \/ \E w \in workers : Empty(w)
    \/ \E w \in workers : TaskSucceeds(w)
    \/ \E w \in workers : TaskFails(w)
    \/ \E w \in workers : TaskAborts(w)
    \/ \E w \in workers : TaskDone(w)
    \/ JoinCall
    \/ JoinReturn
    \/ ShutdownAfterJoin

FairMain ==
    /\ Init /\ [][NextMain]_vars
    /\ \A w \in AllWorkers : WF_vars(w \in workers /\ WorkerStep(w))
    /\ WF_vars(JoinReturn)

----------------------------------------------------------------------------
TypeOK ==
    /\ workers \subseteq AllWorkers
    /\ unfinished \in Nat
    /\ running \in BOOLEAN
    /\ \A w \in workers : pc[w] \in {"check", "get", "exec", "finally", "unwind", "exited"}
    /\ nsub \in 0..MaxTasks
    /\ jpc \in {"idle", "waiting", "returned"}

----------------------------------------------------------------------------
\* Vocabulary of the properties

Submitted == 1..nsub

\* Positions of the queue holding a work item of task t.
QueuedOf(t) == {i \in 1..Len(task_queue) : task_queue[i].task = t}

\* Workers inside task() for a work item of task t.
RunningOf(t) == {w \in workers : pc[w] = "exec" /\ item[w].task = t}

\* Work items of task t that are still to be run or being run.
LiveCount(t) == Cardinality(QueuedOf(t)) + Cardinality(RunningOf(t))

Finished(t) == status[t] \in {"ok", "dropped", "aborted"}

AllExited == \A w \in workers : pc[w] = "exited"

\* Some attempt of some task raised, an Exception or otherwise.
AnyFailure == \E t \in TaskIds : nfail[t] > 0 \/ status[t] = "aborted"

----------------------------------------------------------------------------
\* C1 (retry bound): a task submitted with budget R is started at most R+1
\* times, and the budget carried by its work item is R minus the number of
\* its failures so far: it goes down by one per failure and never up.
C1_RetryBound ==
    \A t \in Submitted :
        /\ execs[t] <= budget[t] + 1
        /\ nfail[t] <= execs[t]
        /\ \A i \in QueuedOf(t) :
              /\ task_queue[i].retries = budget[t] - nfail[t]
              /\ task_queue[i].retries >= 0
        /\ \A w \in RunningOf(t) : item[w].retries = budget[t] - nfail[t]

\* A task that used its whole budget: R+1 attempts, R = MaxRetries.
C1_Witness ==
    \E t \in Submitted :
        budget[t] = MaxRetries /\ execs[t] = MaxRetries + 1 /\ status[t] = "dropped"

\* C2 (eventual completion under bounded failure): a task whose attempts
\* stop failing after k <= R failures is run exactly k+1 times and never
\* again: it is dropped only after R+1 failures, once it has succeeded it
\* has had (failures + 1) attempts and no work item of it is left, and while
\* it is unfinished it is eventually finished (as long as a worker lives).
C2_Safety ==
    \A t \in Submitted :
        /\ status[t] = "dropped" => nfail[t] = budget[t] + 1
        /\ status[t] = "ok" =>
              /\ execs[t] = nfail[t] + 1
              /\ nfail[t] <= budget[t]
              /\ LiveCount(t) = 0

C2_EventualCompletion ==
    /\ []C2_Safety
    /\ \A t \in TaskIds : (status[t] = "live") ~> (Finished(t) \/ AllExited)

\* A task that failed k = MaxRetries times and then succeeded.
C2_Witness ==
    \E t \in Submitted :
        /\ status[t] = "ok" /\ budget[t] = MaxRetries
        /\ nfail[t] = MaxRetries /\ execs[t] = MaxRetries + 1

\* C3 (drain correctness): in the step in which join() returns, the queue
\* is empty and no worker holds an item it has not called task_done() for,
\* so none is executing.
C3_DrainCorrect ==
    [][(jpc = "waiting" /\ jpc' = "returned") =>
          /\ task_queue' = <<>>
          /\ \A w \in workers : pc'[w] \notin {"exec", "finally", "unwind"}]_vars

\* join() has returned after a task was retried, with both workers of a pool.
C3_Witness ==
    /\ jpc = "returned"
    /\ Cardinality(workers) = 2
    /\ \E t \in Submitted : execs[t] >= 2

\* C4 (always-failing task): when join() has returned, a task all of whose
\* attempts raised Exception has been run exactly R+1 times, is dropped and
\* has no work item left; and a join() that waits does return (unless every
\* worker thread has ended).
C4_AlwaysFailing ==
    /\ [](jpc = "returned" =>
            \A t \in Submitted :
                (nfail[t] = execs[t] /\ status[t] # "aborted") =>
                    /\ execs[t] = budget[t] + 1
                    /\ status[t] = "dropped"
                    /\ LiveCount(t) = 0)
    /\ (jpc = "waiting") ~> (jpc = "returned" \/ AllExited)

\* The spec's scenario: 2 workers, retries = 2, 3 attempts, dropped, joined.
C4_Witness ==
    /\ jpc = "returned"
    /\ Cardinality(workers) = 2
    /\ \E t \in Submitted :
        budget[t] = 2 /\ execs[t] = 3 /\ nfail[t] = 3 /\ status[t] = "dropped"

\* C5 (always-succeeding tasks): when join() has returned, every task none
\* of whose attempts raised has been run exactly once and has succeeded;
\* and when no attempt raises, a join() that waits does return.
C5_AllSucceed ==
    /\ [](jpc = "returned" =>
            \A t \in Submitted :
                (nfail[t] = 0 /\ status[t] # "aborted") =>
                    execs[t] = 1 /\ status[t] = "ok")
    /\ (jpc = "waiting") ~> (jpc = "returned" \/ AnyFailure)

\* MaxTasks tasks, all succeeded at once, joined, in a pool of two workers.
C5_Witness ==
    /\ jpc = "returned"
    /\ nsub = MaxTasks
    /\ Cardinality(workers) = 2
    /\ \A t \in Submitted : status[t] = "ok" /\ execs[t] = 1

\* C6 (no lost work): after M submit() calls, each of the M tasks is there
\* exactly once: as one work item (queued or running) or as finished; a
\* task not yet submitted has no work item.
C6_NoLostWork ==
    \A t \in TaskIds :
        IF t \in Submitted
           THEN LiveCount(t) + (IF Finished(t) THEN 1 ELSE 0) = 1
           ELSE LiveCount(t) = 0 /\ status[t] = "new"

\* All MaxTasks initial items are in the queue together.
C6_Witness ==
    /\ nsub = MaxTasks
    /\ Len(task_queue) = MaxTasks
    /\ \A t \in Submitted : execs[t] = 0

\* C7 (shutdown terminates): once the flag is false, every worker thread
\* eventually ends.
C7_ShutdownTerminates == (~running) ~> AllExited

\* Every worker has ended after a shutdown that left items in the queue.
C7_Witness == ~running /\ AllExited /\ task_queue # <<>>

\* C8, as claimed: no worker dequeues (and starts) an item while the flag
\* is false.
C8_NoLateDequeue ==
    [][\A w \in workers : ~running => ~(pc[w] = "get" /\ pc'[w] = "exec")]_vars

\* C8, amended: a worker dequeues at most one item while the flag is false
\* (it was already in get() when the flag flipped), and a worker that is in
\* get() while the flag is false has not dequeued any since the flip.
C8_AtMostOneLate ==
    \A w \in workers :
        /\ late[w] <= 1
        /\ late[w] = 1 => ~running
        /\ (~running /\ pc[w] = "get") => late[w] = 0

\* A worker that dequeued an item after the flip, ran it and ended.
C8_Witness == \E w \in workers : late[w] = 1 /\ pc[w] = "exited"

\* C9 (single worker, FIFO): with one worker, if A was submitted before B
\* and no attempt of A raised, then A has succeeded before B is started.
C9_SingleWorkerFifo ==
    Cardinality(workers) = 1 =>
        \A a \in Submitted : \A b \in Submitted :
            (a < b /\ execs[b] >= 1 /\ nfail[a] = 0) => status[a] = "ok"

\* One worker has run A and then B, both succeeding at once.
C9_Witness ==
    /\ Cardinality(workers) = 1
    /\ nsub >= 2
    /\ status[1] = "ok" /\ status[2] = "ok"
    /\ nfail[1] = 0 /\ nfail[2] = 0

\* C10, as claimed: whatever a task raises, its worker goes on: a worker
\* thread ends only at its loop test, with the flag false.
C10_NeverKilled ==
    [][\A w \in workers :
          (pc[w] # "exited" /\ pc'[w] = "exited") => (pc[w] = "check" /\ ~running)]_vars

\* C10, amended: an attempt that raises an Exception (with or without retry
\* budget left) takes its worker to task_done() and back to the loop test,
\* from where it polls again while the flag is true; a worker thread ends
\* only at the loop test with the flag false, or when a task raised
\* something that is not an Exception.
C10_ExceptionHandled ==
    [][\A w \in workers :
          /\ (pc[w] = "exec" /\ pc'[w] # "exec"
                 /\ nfail'[item[w].task] > nfail[item[w].task]) => pc'[w] = "finally"
          /\ (pc[w] = "finally" /\ pc'[w] # "finally") => pc'[w] = "check"
          /\ (pc[w] = "check" /\ running /\ pc'[w] # "check") => pc'[w] = "get"
          /\ (pc[w] # "exited" /\ pc'[w] = "exited") =>
                (pc[w] = "check" /\ ~running) \/ pc[w] = "unwind"]_vars

\* The only worker of a pool polls again after a task used up its budget.
C10_Witness ==
    /\ Cardinality(workers) = 1
    /\ running
    /\ \E w \in workers : pc[w] = "get"
    /\ \E t \in Submitted : status[t] = "dropped" /\ nfail[t] >= 1

\* C11 (submit never blocks, appends at the tail, changes nothing else):
\* while the model still has a task to submit, submit() is enabled for a
\* caller other than the thread blocked in join(), whatever the flag and
\* the workers' states, and a worker inside task() can always take the
\* failure path with its re-submission; every step that submits (a caller's
\* call or a worker's retry) makes the queue its old contents followed by
\* exactly one item, with the budget given (or one less, for a retry), and
\* leaves the flag, the worker set and, for a caller's call, every worker's
\* position untouched.
C11_SubmitFrame ==
    /\ [](/\ nsub < MaxTasks => ENABLED Submit("aux")
          /\ (nsub < MaxTasks /\ jpc = "idle") => ENABLED Submit("main")
          /\ \A w \in workers : pc[w] = "exec" => ENABLED TaskFails(w))
    /\ [][/\ nsub' # nsub =>
               /\ nsub' = nsub + 1
               /\ task_queue' = Append(task_queue,
                      [task |-> nsub', retries |-> budget'[nsub']])
               /\ budget'[nsub'] \in RetryChoices
               /\ unfinished' = unfinished + 1
               /\ running' = running /\ workers' = workers
               /\ pc' = pc /\ item' = item
          /\ Len(task_queue') > Len(task_queue) =>
               /\ Len(task_queue') = Len(task_queue) + 1
               /\ SubSeq(task_queue', 1, Len(task_queue)) = task_queue
               /\ running' = running /\ workers' = workers]_vars

\* With the flag false and every worker gone, a call has still put its item
\* behind an older one.
C11_Witness ==
    /\ ~running /\ AllExited
    /\ Len(task_queue) = 2
    /\ task_queue[1].task = 1 /\ task_queue[2].task = 2
    /\ execs[1] = 0 /\ execs[2] = 0

\* C12, as claimed: a worker thread ends only with the flag false and
\* straight after a timed-out get(); in particular never straight after
\* running an item.
C12_ExitOnlyAfterTimeout ==
    [][\A w \in workers :
          (pc[w] # "exited" /\ pc'[w] = "exited") =>
              ~running /\ pc[w] = "check" /\ via[w] = "empty"]_vars

\* C12, amended: a worker thread ends only at its loop test with the flag
\* false, whatever brought it there (a timed-out get(), the task_done() of
\* an item it ran, or the start of the thread), or through an exception of
\* its task that is not an Exception; and at the loop test with the flag
\* false it does nothing but end.
C12_ExitAtLoopTest ==
    [][\A w \in workers :
          /\ (pc[w] # "exited" /\ pc'[w] = "exited") =>
                \/ pc[w] = "check" /\ ~running
                \/ pc[w] = "unwind"
          /\ (pc[w] = "check" /\ ~running /\ pc'[w] # "check") => pc'[w] = "exited"]_vars

\* A worker ended straight after the task_done() of a handled item, by its
\* loop test, leaving an item in the queue: no get() timed out in between.
C12_Witness ==
    \E w \in workers :
        /\ pc[w] = "exited" /\ via[w] = "done"
        /\ task_queue # <<>>
        /\ \A t \in TaskIds : status[t] # "aborted"

\* C13 (task_done once per dequeued item): the step that ends the
\* processing of a dequeued item, on the success path, on the failure path
\* with a retry and on the failure path without, lowers unfinished_tasks by
\* exactly one and releases the item; no other step of a worker lowers it:
\* not the get(), not the end of task() with its handler (which only adds
\* the retry it puts), not a get() that timed out.  A worker holds an item
\* exactly while it is between its get() and that task_done().
C13_Holding ==
    \A w \in workers :
        (pc[w] \in {"exec", "finally", "unwind"}) <=> (item[w] # NoItem)

C13_TaskDoneOnce ==
    /\ []C13_Holding
    /\ [][\A w \in workers :
            /\ (pc[w] \in {"finally", "unwind"} /\ pc'[w] # pc[w]) =>
                  unfinished' = unfinished - 1 /\ item'[w] = NoItem
            /\ (pc[w] = "exec" /\ pc'[w] # "exec") =>
                  /\ unfinished' = unfinished + (Len(task_queue') - Len(task_queue))
                  /\ pc'[w] \in {"finally", "unwind"}
            /\ (pc[w] = "get" /\ pc'[w] # "get") =>
                  unfinished' = unfinished /\ pc'[w] \in {"exec", "check"}
            /\ (pc[w] = "check" /\ pc'[w] # "check") => unfinished' = unfinished]_vars

\* All three paths and a timed-out get() have been taken and every item is
\* accounted for: one task succeeded after a retry, one was dropped.
C13_Witness ==
    /\ unfinished = 0
    /\ \E t \in Submitted : status[t] = "ok" /\ nfail[t] >= 1
    /\ \E t \in Submitted : status[t] = "dropped"
    /\ \E w \in workers : via[w] = "empty"

\* C14 (re-submission on failure): when task() ends for a work item
\* (task, r): if it raised Exception and r > 0, the queue becomes its old
\* contents followed by the one new item (task, r-1); if it raised Exception
\* and r = 0 the queue is unchanged and the task is dropped; if it did not
\* raise Exception (it returned, or raised something else) the queue is
\* unchanged.
C14_Resubmission ==
    [][\A w \in workers :
          (pc[w] = "exec" /\ pc'[w] # "exec") =>
              IF nfail'[item[w].task] > nfail[item[w].task]
                 THEN IF item[w].retries > 0
                         THEN /\ task_queue' = Append(task_queue,
                                     [task |-> item[w].task,
                                      retries |-> item[w].retries - 1])
                              /\ status'[item[w].task] = "live"
                         ELSE /\ task_queue' = task_queue
                              /\ status'[item[w].task] = "dropped"
                 ELSE task_queue' = task_queue]_vars

\* The retry of task 1 stands in the queue behind the item of task 2, which
\* was submitted later than task 1.
C14_Witness ==
    /\ Len(task_queue) = 2
    /\ task_queue[1].task = 2 /\ execs[2] = 0
    /\ task_queue[2].task = 1 /\ task_queue[2].retries = budget[1] - 1
    /\ nfail[1] = 1

\* C15 (one worker per work item): a work item held by a worker is held by
\* no other worker and is no longer in the queue, and every task has at
\* most one work item that is queued or being run, so at most one worker is
\* inside task() for it.
C15_AtMostOneWorker ==
    /\ \A t \in TaskIds :
          LiveCount(t) <= 1 /\ Cardinality(RunningOf(t)) <= 1
    /\ \A w \in workers :
          item[w] # NoItem =>
              /\ \A v \in workers \ {w} : item[v] # item[w]
              /\ \A i \in 1..Len(task_queue) : task_queue[i] # item[w]

\* One worker is inside task() for the retry of a task whose failed item
\* another worker still holds, before its task_done().
C15_Witness ==
    \E w \in workers : \E v \in workers :
        /\ pc[w] = "finally" /\ pc[v] = "exec"
        /\ item[w].task = item[v].task
        /\ item[v].retries = item[w].retries - 1

\* C16 (the flag only goes from true to false): the flag is true after
\* construction; a step that changes it takes it from true to false and
\* changes nothing else (it is shutdown()'s assignment); once it is false
\* every step (a submit, a worker step, a join, another shutdown) leaves it
\* false, and shutdown() can be called again.
C16_FlagMonotone ==
    /\ running = TRUE
    /\ [](~running => ENABLED Shutdown)
    /\ [][/\ ~running => ~running'
          /\ running' # running =>
               /\ running /\ ~running'
               /\ UNCHANGED <<workers, task_queue, unfinished, pc, item, nsub,
                              budget, nfail, execs, status, late, via, jpc>>]_vars

\* With the flag false a worker has dequeued and run an item, a caller has
\* submitted and the joining thread has returned: the flag is still false.
C16_Witness ==
    /\ ~running
    /\ jpc = "returned"
    /\ nsub = MaxTasks
    /\ \E w \in workers : late[w] = 1 /\ pc[w] = "exited"

\* A task that has failed and whose retry has not finished yet.
RetryPending(t) == nfail[t] > 0 /\ status[t] = "live"

\* C17 (the retry is enqueued before task_done): a failed attempt with
\* retries > 0 appends the retry and raises the unfinished count while the
\* worker still holds the failed item; as long as a task has a retry to run
\* the retry is queued or running and the unfinished count is above zero;
\* join() does not return while a retry is pending.
C17_RetryBeforeDone ==
    /\ [](\A t \in TaskIds :
             RetryPending(t) => unfinished > 0 /\ LiveCount(t) = 1)
    /\ [][\A w \in workers :
             (/\ pc[w] = "exec" /\ pc'[w] = "finally"
              /\ nfail'[item[w].task] > nfail[item[w].task]
              /\ item[w].retries > 0)
             => /\ task_queue' = Append(task_queue, RetryItem(item[w]))
                /\ unfinished' = unfinished + 1
                /\ item'[w] = item[w]]_vars
    /\ [][(jpc = "waiting" /\ jpc' = "returned")
             => \A t \in TaskIds : ~RetryPending(t)]_vars

\* join() is waiting, the failed item has been marked done and the only thing
\* that keeps the unfinished count above zero is the queued retry.
C17_Witness ==
    /\ jpc = "waiting"
    /\ unfinished = 1
    /\ Len(task_queue) = 1
    /\ RetryPending(task_queue[1].task)
    /\ \A w \in workers : item[w] = NoItem

\* The workers that have dequeued an item and not yet called task_done().
Holders == {w \in workers : item[w] # NoItem}

\* C18 (counter invariant): in every reachable state unfinished_tasks is the
\* number of queued items plus the number of workers between their get()
\* and their task_done(); it is never negative, and a step that lowers it
\* lowers it by one from a positive value, so task_done() never outnumbers
\* put().
C18_CounterInvariant ==
    /\ [](/\ unfinished = Len(task_queue) + Cardinality(Holders)
          /\ unfinished >= 0)
    /\ [][unfinished' < unfinished =>
             unfinished > 0 /\ unfinished' = unfinished - 1]_vars

\* The count is made of both parts: one item is queued, every worker of a
\* pool of two holds one (one of them ended by an uncaught exception and not
\* yet through its finally clause).
C18_Witness ==
    /\ Cardinality(workers) = 2
    /\ Cardinality(Holders) = 2
    /\ Len(task_queue) = 1
    /\ unfinished = 3
    /\ \E w \in workers : pc[w] = "unwind"

\* The number of executions started while the flag was false, over the
\* workers of S.
RECURSIVE LateExecutions(_)
LateExecutions(S) ==
    IF S = {} THEN 0
    ELSE LET w == CHOOSE x \in S : TRUE
         IN  late[w] + LateExecutions(S \ {w})

\* C19 (bounded work after shutdown): at most N executions (N = number of
\* workers) start while the flag is false, whatever the queue holds or
\* receives: a worker that starts one then (a step from get() to task() with
\* the flag false) has started none since the flip, afterwards it is inside
\* that execution, at its loop test or ended, and from the loop test with
\* the flag false it only ends.
C19_BoundedAfterShutdown ==
    /\ [](LateExecutions(workers) <= Cardinality(workers))
    /\ [](\A w \in workers :
             late[w] >= 1 =>
                pc[w] \in {"exec", "finally", "unwind", "check", "exited"})
    /\ [][\A w \in workers :
             /\ (~running /\ pc[w] = "get" /\ pc'[w] = "exec") =>
                   late[w] = 0 /\ late'[w] = 1
             /\ (~running /\ pc[w] = "check") => pc'[w] \in {"check", "exited"}
             /\ late'[w] >= late[w]]_vars

\* Both workers of a pool of two have started an execution after the flip,
\* and the queue still holds an item that no worker will take.
C19_Witness ==
    /\ Cardinality(workers) = 2
    /\ LateExecutions(workers) = 2
    /\ task_queue # <<>>

\* C20 (Exited is absorbing): a worker that has ended stays ended and holds
\* no item; the set of workers never changes; once all workers have ended,
\* every step leaves the queue as it is or appends to it, starts no
\* execution and does not lower unfinished_tasks, so with items queued the
\* count is above zero in that state and in every later one, and a join()
\* that waits does not return.
C20_ExitedAbsorbing ==
    /\ [](\A w \in workers : pc[w] = "exited" => item[w] = NoItem)
    /\ [](AllExited => unfinished = Len(task_queue))
    /\ [][/\ workers' = workers
          /\ \A w \in workers : pc[w] = "exited" => pc'[w] = "exited"
          /\ AllExited =>
                /\ AllExited'
                /\ execs' = execs
                /\ unfinished' >= unfinished
                /\ Len(task_queue') >= Len(task_queue)
                /\ SubSeq(task_queue', 1, Len(task_queue)) = task_queue
          /\ (AllExited /\ unfinished > 0) =>
                ~(jpc = "waiting" /\ jpc' = "returned")]_vars

\* All workers have ended, items are left in the queue (one of them never
\* started) and the main thread waits in join().
C20_Witness ==
    /\ AllExited
    /\ jpc = "waiting"
    /\ unfinished > 0
    /\ \E i \in 1..Len(task_queue) : execs[task_queue[i].task] = 0

====
